---- MODULE Spec2Model ----
(***************************************************************************)
(* Plugin Manager (Grum999/PluginManager): the plugin lifecycle engine of  *)
(* src/pluginmanager/pmplugin.py (classes Plugin and Plugins), over a      *)
(* model of the host (Krita settings store, sys.modules, extensions,       *)
(* actions, menus) and of the filesystem.  Paths and file names are        *)
(* character strings; os.path, re.search and zipfile are modelled by what  *)
(* they compute on them.  The dialog of src/pluginmanager/pmwindow.py      *)
(* (class PMWindow: the list of plugins with its check boxes, the          *)
(* selection and the activate button) is modelled over the same host.      *)
(***************************************************************************)
EXTENDS Integers, Sequences, FiniteSets, TLC

VARIABLES
    dirs,        \* filesystem: the set of existing directories (paths)
    files,       \* filesystem: path -> content of every existing regular file
    settings,    \* Krita settings, group 'python': key -> value
    modules,     \* sys.modules: module name -> __file__
    extensions,  \* Krita.instance().extensions(): sequence of extension objects
    actions,     \* Krita.instance().actions(): sequence of actions
    menus,       \* menu object -> sequence of action names added to it
    heap,        \* Plugin objects held by the caller: slot -> Plugin fields
    plugins,     \* Plugins.__plugins of the registry: key -> Plugin fields
    last,        \* the last operation: name, arguments, result, event log
    installs,    \* the number of Plugin.install calls made
    steps,       \* the number of operations the caller has run
    ui           \* the dialog: rows, check states, selection, pending signals

vars == <<dirs, files, settings, modules, extensions, actions, menus, heap, plugins,
          last, installs, steps, ui>>

(***************************************************************************)
(* Bounds of the model.                                                    *)
(***************************************************************************)
\* number of Plugin objects the caller holds besides the registry's
NumObjects == 1
\* archives the caller has Plugin.install read
MaxInstalls == 1
\* operations the caller runs in one session
MaxOps == 4
\* extension objects one plugin directory may have registered with the host
MaxExt == 2
\* clicks and key presses the user makes in the dialog
MaxClicks == 3
\* runs of the itemChanged handler counted after one click or key press
MaxHandled == 3

(***************************************************************************)
(* Strings: Python slicing, str.rfind, str.split, re.search(...$).         *)
(***************************************************************************)
\* s[n:]
Slice(s, n) == IF n >= Len(s) THEN "" ELSE SubSeq(s, n + 1, Len(s))

\* s[:n]
Prefix(s, n) == IF n <= 0 THEN "" ELSE IF n >= Len(s) THEN s ELSE SubSeq(s, 1, n)

\* s.endswith(t); also re.search(re.escape(t) + '$', s)
EndsWith(s, t) == Len(t) <= Len(s) /\ Slice(s, Len(s) - Len(t)) = t

\* s.startswith(t)
StartsWith(s, t) == Len(t) <= Len(s) /\ Prefix(s, Len(t)) = t

\* the 1-based position of the last '/' in s[:n], 0 when there is none: s.rfind('/') + 1
RECURSIVE RFindSlash(_, _)
RFindSlash(s, n) ==
    IF n = 0 THEN 0
    ELSE IF SubSeq(s, n, n) = "/" THEN n
    ELSE RFindSlash(s, n - 1)

\* s.rstrip('/')
RECURSIVE RStripSlash(_)
RStripSlash(s) ==
    IF Len(s) > 0 /\ SubSeq(s, Len(s), Len(s)) = "/"
    THEN RStripSlash(Prefix(s, Len(s) - 1))
    ELSE s

\* s.split('/'), as a sequence of strings
RECURSIVE SplitSlash(_)
SplitSlash(s) ==
    LET i == RFindSlash(s, Len(s))
    IN  IF i = 0 THEN <<s>>
        ELSE Append(SplitSlash(Prefix(s, i - 1)), Slice(s, i))

\* '/'.join(parts)
RECURSIVE JoinSlash(_)
JoinSlash(parts) ==
    IF Len(parts) = 0 THEN ""
    ELSE IF Len(parts) = 1 THEN parts[1]
    ELSE parts[1] \o "/" \o JoinSlash(Tail(parts))

(***************************************************************************)
(* os.path (posixpath).                                                    *)
(***************************************************************************)
\* os.path.join(a, b)
PathJoin(a, b) ==
    IF StartsWith(b, "/") THEN b
    ELSE IF a = "" \/ EndsWith(a, "/") THEN a \o b
    ELSE a \o "/" \o b

\* os.path.dirname(p)
PathDirname(p) ==
    LET head == Prefix(p, RFindSlash(p, Len(p)))
    IN  IF head # "" /\ RStripSlash(head) # "" THEN RStripSlash(head) ELSE head

\* os.path.basename(p)
PathBasename(p) == Slice(p, RFindSlash(p, Len(p)))

\* the path as the kernel resolves it: trailing slashes name the directory itself
PathNorm(p) == IF RStripSlash(p) = "" THEN p ELSE RStripSlash(p)

\* p lies below directory d (at any depth)
PathUnder(p, d) == StartsWith(p, PathNorm(d) \o "/") /\ Len(p) > Len(PathNorm(d)) + 1

(***************************************************************************)
(* The host's directories.                                                 *)
(***************************************************************************)
\* QStandardPaths.writableLocation(QStandardPaths.AppDataLocation)
AppData == "/app"

\* the install root, os.path.join(AppData, 'pykrita')
PluginsDir == PathJoin(AppData, "pykrita")

\* the host-managed actions directory, os.path.join(AppData, 'actions')
ActionsDir == PathJoin(AppData, "actions")

(***************************************************************************)
(* The world an operation runs in: the program's state, the Plugin object  *)
(* the method runs on (cur), the exception in flight (exc), the value      *)
(* returned (ret) and the log of the host and filesystem calls made.       *)
(***************************************************************************)
NoExc == "none"

World(self) ==
    [dirs |-> dirs, files |-> files, settings |-> settings, modules |-> modules,
     extensions |-> extensions, actions |-> actions, menus |-> menus,
     heap |-> heap, plugins |-> plugins,
     cur |-> self, exc |-> NoExc, ret |-> "None", log |-> <<>>, denied |-> {}]

Raise(w, e) == [w EXCEPT !.exc = e]

Emit(w, ev, a, b) == [w EXCEPT !.log = Append(@, [ev |-> ev, a |-> a, b |-> b])]

\* the events of kind ev in a log, in order
RECURSIVE LogOf(_, _)
LogOf(log, ev) ==
    IF Len(log) = 0 THEN <<>>
    ELSE IF log[1].ev = ev THEN <<log[1]>> \o LogOf(Tail(log), ev)
    ELSE LogOf(Tail(log), ev)

\* the function with no argument
EmptyFn == [x \in {} |-> ""]

FnPut(f, k, v) == [x \in DOMAIN f \cup {k} |-> IF x = k THEN v ELSE f[x]]

FnDrop(f, K) == [x \in DOMAIN f \ K |-> f[x]]

(***************************************************************************)
(* Filesystem calls: os.path.exists/isfile, os.mkdir, os.remove,           *)
(* shutil.rmtree(ignore_errors=True), ZipFile.extract.                     *)
(***************************************************************************)
OsExists(w, p) == PathNorm(p) \in w.dirs \/ p \in DOMAIN w.files

OsIsFile(w, p) == p \in DOMAIN w.files

OsMkdir(w, p) ==
    IF OsExists(w, p) THEN Raise(w, "FileExistsError")
    ELSE IF PathDirname(PathNorm(p)) \notin w.dirs THEN Raise(w, "FileNotFoundError")
    ELSE Emit([w EXCEPT !.dirs = @ \cup {PathNorm(p)}], "mkdir", PathNorm(p), "")

OsRemove(w, p) ==
    IF p \in w.denied THEN Raise(w, "PermissionError")
    ELSE IF p \in DOMAIN w.files
    THEN Emit([w EXCEPT !.files = FnDrop(@, {p})], "remove", p, "")
    ELSE Raise(w, "OSError")

ShutilRmtree(w, p) ==
    LET d == PathNorm(p)
    IN  IF d \notin w.dirs THEN w
        ELSE Emit([w EXCEPT !.dirs = {x \in @ : x # d /\ ~PathUnder(x, d)},
                            !.files = FnDrop(@, {x \in DOMAIN @ : PathUnder(x, d)})],
                  "rmtree", d, "")

\* a directory and all its ancestors
RECURSIVE Ancestors(_)
Ancestors(d) ==
    IF d = "" \/ d = "/" \/ PathDirname(d) = d THEN {}
    ELSE {d} \cup Ancestors(PathDirname(d))

\* the member name as ZipFile._extract_member sanitises it: empty, '.' and '..'
\* components are dropped
RECURSIVE DropInvalidParts(_)
DropInvalidParts(parts) ==
    IF Len(parts) = 0 THEN <<>>
    ELSE IF parts[1] \in {"", ".", ".."} THEN DropInvalidParts(Tail(parts))
    ELSE <<parts[1]>> \o DropInvalidParts(Tail(parts))

ZipArcname(name) == JoinSlash(DropInvalidParts(SplitSlash(name)))

\* archive.extract(member, target), the member carrying file name `name`
ZipExtract(w, src, name, content, target) ==
    LET dest == PathNorm(PathJoin(target, ZipArcname(name)))
        upper == PathDirname(dest)
    IN  IF EndsWith(name, "/")
        THEN Emit([w EXCEPT !.dirs = @ \cup Ancestors(dest)], "extract", src, dest)
        ELSE IF dest \in w.dirs THEN Raise(w, "IsADirectoryError")
        ELSE Emit([w EXCEPT !.dirs = @ \cup Ancestors(upper),
                            !.files = FnPut(@, dest, content)],
                  "extract", src, dest)

(***************************************************************************)
(* The host settings store: Krita.instance().readSetting / writeSetting.   *)
(***************************************************************************)
SettingKey(id) == "enable_" \o id

ReadSetting(w, key, default) ==
    IF key \in DOMAIN w.settings THEN w.settings[key] ELSE default

\* writeSetting(group, key, value); a value of None removes the key
WriteSetting(w, key, value) ==
    IF value = "None"
    THEN Emit([w EXCEPT !.settings = FnDrop(@, {key})], "writeSetting", key, value)
    ELSE Emit([w EXCEPT !.settings = FnPut(@, key, value)], "writeSetting", key, value)

(***************************************************************************)
(* Manifests.  A manifest text is a sequence of lines, a section header    *)
(* [k |-> "[", v |-> name] or an option [k |-> key, v |-> value];          *)
(* configparser reads it into sections of options.                         *)
(***************************************************************************)
RECURSIVE CfgFold(_, _, _, _)
CfgFold(text, i, sect, acc) ==
    IF i > Len(text) THEN acc
    ELSE IF text[i].k = "["
    THEN CfgFold(text, i + 1, text[i].v, [acc EXCEPT !.sections = @ \cup {text[i].v}])
    ELSE IF sect = "" THEN [acc EXCEPT !.err = TRUE]   \* MissingSectionHeaderError
    ELSE IF sect = "Desktop Entry"
    THEN CfgFold(text, i + 1, sect, [acc EXCEPT !.opts = FnPut(@, text[i].k, text[i].v)])
    ELSE CfgFold(text, i + 1, sect, acc)

\* configparser.ConfigParser().read(...) / read_string(...)
ConfigParse(text) == CfgFold(text, 1, "", [err |-> FALSE, sections |-> {}, opts |-> EmptyFn])

\* settings.get(key, default)
CfgGet(cfg, key, default) == IF key \in DOMAIN cfg.opts THEN cfg.opts[key] ELSE default

(***************************************************************************)
(* class Plugin.                                                           *)
(***************************************************************************)
\* Plugin.__init__ / Plugin.__defaultValues: the void record
VoidPlugin ==
    [id |-> "", name |-> "", description |-> "", path |-> "", manual |-> "",
     desktopFile |-> "", isActive |-> FALSE, isValid |-> FALSE]

DefaultValues(w) == [w EXCEPT !.cur = VoidPlugin]

\* Plugins.path(): the install root; a missing root makes it raise (os.mkdir(dest),
\* dest being no name of the function)
PluginsPathRaises(w) == ~OsExists(w, PluginsDir)

\* Plugin.__loadFromcfgParser
LoadFromCfgParser(w, cfg) ==
    IF "Desktop Entry" \notin cfg.sections THEN Raise(w, "KeyError")
    ELSE
      LET id == CfgGet(cfg, "X-KDE-Library", "")
          w1 == [w EXCEPT !.cur.id = id,
                          !.cur.name = CfgGet(cfg, "Name", ""),
                          !.cur.description = CfgGet(cfg, "Comment", "")]
          path == PathJoin(PluginsDir, id)
          rel == CfgGet(cfg, "X-Krita-Manual", "")
      IN  IF PluginsPathRaises(w1) THEN Raise(w1, "NameError")
          ELSE [w1 EXCEPT !.cur.path = path,
                          !.cur.manual = IF rel # "" THEN PathJoin(path, rel) ELSE "",
                          !.cur.isValid = TRUE,
                          !.cur.isActive =
                              (ReadSetting(w1, SettingKey(id), "false") = "true")]

\* Plugin.loadFromDesktopFile; desktopFileName "None" is Python's None
LoadFromDesktopFile(w, desktopFileName) ==
    LET w0 == DefaultValues(w)
    IN  IF desktopFileName = "None" THEN w0
        ELSE IF ~OsIsFile(w0, desktopFileName) THEN Raise(w0, "EInvalidValue")
        ELSE IF ~EndsWith(desktopFileName, ".desktop") THEN Raise(w0, "EInvalidValue")
        ELSE
          LET w1 == [w0 EXCEPT !.cur.desktopFile = desktopFileName]
              cfg == ConfigParse(w1.files[desktopFileName])
          IN  IF cfg.err THEN Raise(w1, "ParsingError")
              ELSE LoadFromCfgParser(w1, cfg)

\* Plugin.loadFromDesktopContent
LoadFromDesktopContent(w, desktopContent) ==
    LET w0 == DefaultValues(w)
    IN  IF desktopContent = <<>> THEN w0
        ELSE
          LET cfg == ConfigParse(desktopContent)
              w1 == IF cfg.err THEN Raise(w0, "ParsingError") ELSE LoadFromCfgParser(w0, cfg)
          IN  IF w1.exc # NoExc THEN w1
              ELSE IF PluginsPathRaises(w1) THEN Raise(w1, "NameError")
              ELSE [w1 EXCEPT !.cur.desktopFile =
                                  PathJoin(PluginsDir, w1.cur.id \o ".desktop")]

\* Plugin.deactivate
Deactivate(w) ==
    IF ~w.cur.isActive THEN w
    ELSE
      LET w1 == WriteSetting([w EXCEPT !.cur.isActive = FALSE],
                             SettingKey(w.cur.id), "false")
          gone == {m \in DOMAIN w1.modules : PathDirname(w1.modules[m]) = w1.cur.path}
      IN  Emit([w1 EXCEPT !.modules = FnDrop(@, gone)], "unload", w1.cur.path, "")

(***************************************************************************)
(* The host: module loader, extensions, actions and the window's menus.    *)
(***************************************************************************)
\* Krita.instance().activeWindow().qwindow().menuWidget()
MenuBar == "menubar"

MenuWidgets == {"menubar", "m_file", "m_tools", "m_scripts"}

\* the actions the host's own menus hold: name and submenu ("None": no submenu)
HostActions(widget) ==
    CASE widget = "menubar" -> <<[name |-> "file", menu |-> "m_file"],
                                 [name |-> "tools", menu |-> "m_tools"]>>
      [] widget = "m_tools" -> <<[name |-> "scripts", menu |-> "m_scripts"],
                                 [name |-> "recorder", menu |-> "None"]>>
      [] OTHER -> <<>>

\* widget.actions(): the host's own, then the actions added to the widget
WidgetActions(w, widget) ==
    HostActions(widget) \o
    [i \in 1..Len(w.menus[widget]) |-> [name |-> w.menus[widget][i], menu |-> "None"]]

\* the index of the first action of acts named name, 0 when there is none
RECURSIVE FirstNamed(_, _, _)
FirstNamed(acts, name, i) ==
    IF i > Len(acts) THEN 0
    ELSE IF acts[i].name = name THEN i
    ELSE FirstNamed(acts, name, i + 1)

\* Plugin.__getMenuLocation(location, fromWidget); "None" is Python's None
RECURSIVE GetMenuLocation(_, _, _)
GetMenuLocation(w, location, fromWidget) ==
    LET idList == SplitSlash(location)
        from == IF fromWidget = "None" THEN MenuBar ELSE fromWidget
        acts == WidgetActions(w, from)
        i == FirstNamed(acts, idList[1], 1)
    IN  IF i = 0 THEN "None"
        ELSE IF Len(idList) = 1 THEN acts[i].menu
        ELSE GetMenuLocation(w, JoinSlash(Tail(idList)), acts[i].menu)

\* menu.addAction(action): QWidget appends an action it does not hold yet and
\* moves one it holds to the end
MenuAddAction(w, menu, name) ==
    Emit([w EXCEPT !.menus[menu] =
              Append(SelectSeq(@, LAMBDA a : a # name), name)],
         "addAction", name, menu)

\* what the entry module of a plugin does when it is executed: it raises
\* ("fail"), registers no extension ("plain"), registers an extension whose
\* action names a menu of the window ("ext"), a menu there is not ("lost") or
\* a path through an action that has no submenu ("detour"), or registers two
\* extensions with one action each ("pair")
Behaviours == {"fail", "plain", "ext", "lost", "detour", "pair"}

\* the number of extension objects whose class is defined in directory d
ExtCount(exts, d) == Cardinality({i \in 1..Len(exts) : exts[i].dir = d})

\* SourceFileLoader("__main__", script).load_module(): the entry module is
\* executed as module __main__; a module that registers itself adds one
\* extension object to the host
LoadModule(w, script, beh) ==
    IF ~OsIsFile(w, script) THEN Raise(w, "FileNotFoundError")
    ELSE
      LET d == PathDirname(script)
          w1 == Emit([w EXCEPT !.modules = FnPut(@, "__main__", script)],
                     "loadModule", script, "")
          ext == [dir |-> d,
                  acts |-> IF beh = "lost"
                           THEN <<[name |-> PathBasename(d) \o "_orphan",
                                   menulocation |-> "tools/nowhere"]>>
                           ELSE IF beh = "detour"
                           THEN <<[name |-> PathBasename(d) \o "_detour",
                                   menulocation |-> "tools/recorder/file"]>>
                           ELSE <<[name |-> PathBasename(d) \o "_act",
                                   menulocation |-> "tools/scripts"]>>]
          pair == <<[dir |-> d, acts |-> <<[name |-> PathBasename(d) \o "_first",
                                            menulocation |-> "tools/scripts"]>>],
                    [dir |-> d, acts |-> <<[name |-> PathBasename(d) \o "_second",
                                            menulocation |-> "tools/scripts"]>>]>>
      IN  IF beh = "fail" THEN Raise(w1, "ImportError")
          ELSE IF beh = "plain" THEN w1
          ELSE IF beh = "pair" THEN [w1 EXCEPT !.extensions = @ \o pair]
          ELSE [w1 EXCEPT !.extensions = Append(@, ext)]

\* extension.createActions(window): the host registers the actions the
\* extension creates; an action name the host already has stays one action
RECURSIVE CreateActions(_, _, _)
CreateActions(w, acts, i) ==
    IF i > Len(acts) THEN w
    ELSE IF FirstNamed(w.actions, acts[i].name, 1) # 0 THEN CreateActions(w, acts, i + 1)
    ELSE CreateActions([w EXCEPT !.actions = Append(@, acts[i])], acts, i + 1)

\* the names of a sequence of actions
ActionNames(acts) == {acts[i].name : i \in 1..Len(acts)}

\* Plugin.activate, the loop over Krita.instance().extensions(): setup and
\* createActions of every extension defined in the plugin's directory, then the
\* actions absent from the snapshot are appended to newActionsList
RECURSIVE ExtensionLoop(_, _, _, _)
ExtensionLoop(w, exts, i, snapshot) ==
    IF i > Len(exts) THEN w
    ELSE IF exts[i].dir # w.cur.path THEN ExtensionLoop(w, exts, i + 1, snapshot)
    ELSE
      LET w1 == Emit(w, "setup", exts[i].dir, "")
          w2 == Emit(CreateActions(w1, exts[i].acts, 1), "createActions", exts[i].dir, "")
          new == SelectSeq(w2.actions, LAMBDA a : a.name \notin snapshot)
          w3 == [w2 EXCEPT !.log = @ \o [k \in 1..Len(new) |->
                                [ev |-> "newAction", a |-> new[k].name,
                                 b |-> new[k].menulocation]]]
      IN  ExtensionLoop(w3, exts, i + 1, snapshot)

\* a loop over newActionsList that fails on a menu location it cannot resolve
MenuLoopStrict(w, new, i) ==
    IF \E k \in i..Len(new) : new[k].b = "None" \/ GetMenuLocation(w, new[k].b, "None") = "None"
    THEN Raise(w, "AttributeError")
    ELSE w

\* Plugin.activate, the loop over newActionsList
RECURSIVE MenuLoop(_, _, _)
MenuLoop(w, new, i) ==
    IF i > Len(new) THEN w
    ELSE
      LET menu == IF new[i].b = "None" THEN "None"
                  ELSE GetMenuLocation(w, new[i].b, "None")
      IN  IF menu = "None" THEN MenuLoop(w, new, i + 1)
          ELSE MenuLoop(MenuAddAction(w, menu, new[i].a), new, i + 1)

\* an activation that loads the entry module before it persists the setting
ActivateStepsLoadFirst(w, beh) ==
    LET w1 == LoadModule([w EXCEPT !.cur.isActive = TRUE],
                         PathJoin(w.cur.path, "__init__.py"), beh)
        w2 == WriteSetting(w1, SettingKey(w.cur.id), "true")
        w3 == Emit(w2, "snapshot", "", "")
        w4 == ExtensionLoop(w3, w3.extensions, 1, ActionNames(w2.actions))
    IN  IF w1.exc # NoExc THEN w1
        ELSE MenuLoop(w4, LogOf(w4.log, "newAction"), 1)

\* Plugin.activate from the point where the record is known to be inactive
ActivateSteps(w, beh) ==
    LET w1 == WriteSetting([w EXCEPT !.cur.isActive = TRUE],
                           SettingKey(w.cur.id), "true")
        w2 == LoadModule(w1, PathJoin(w1.cur.path, "__init__.py"), beh)
        w3 == Emit(w2, "snapshot", "", "")
        w4 == ExtensionLoop(w3, w3.extensions, 1, ActionNames(w2.actions))
    IN  IF w2.exc # NoExc THEN w2
        ELSE MenuLoop(w4, LogOf(w4.log, "newAction"), 1)

ActivateNoGuard(w, beh) == ActivateSteps(w, beh)

\* Plugin.activate
Activate(w, beh) ==
    IF w.cur.isActive THEN w
    ELSE ActivateSteps(w, beh)

(***************************************************************************)
(* Plugin.uninstall and Plugin.install.                                    *)
(***************************************************************************)
ACTION_VALIDATE_ASK == 0
ACTION_VALIDATE_YES == 1
ACTION_VALIDATE_NO == 2

\* the decision after the QMessageBox.question of uninstall or install
Confirmed(w, decision, answer) ==
    IF decision = ACTION_VALIDATE_ASK
    THEN IF answer THEN ACTION_VALIDATE_YES ELSE ACTION_VALIDATE_NO
    ELSE decision

Asked(w, decision) ==
    IF decision = ACTION_VALIDATE_ASK THEN Emit(w, "ask", "", "") ELSE w

\* Plugin.uninstall, the removal of the plugin's files
UninstallFiles(w) ==
    LET w1 == IF OsExists(w, w.cur.desktopFile) THEN OsRemove(w, w.cur.desktopFile) ELSE w
        actionFile == PathJoin(PathJoin(AppData, "actions"), w.cur.id \o ".action")
        w2 == IF w1.exc # NoExc THEN w1
              ELSE IF OsExists(w1, actionFile) THEN OsRemove(w1, actionFile) ELSE w1
        w3 == IF w2.exc # NoExc THEN w2
              ELSE IF OsExists(w2, w2.cur.path) THEN ShutilRmtree(w2, w2.cur.path) ELSE w2
    IN  w3

UninstallClearFirst(w, confirmUninstall, answer) ==
    LET w0 == Asked(w, confirmUninstall)
    IN  IF Confirmed(w0, confirmUninstall, answer) = ACTION_VALIDATE_NO
        THEN [w0 EXCEPT !.ret = "False"]
        ELSE
          LET w1 == WriteSetting(w0, SettingKey(w0.cur.id), "None")
              w2 == Deactivate(Emit(w1, "deactivate", w1.cur.id, ""))
              w3 == UninstallFiles(w2)
          IN  IF w3.exc # NoExc THEN w3
              ELSE [DefaultValues(Emit(w3, "reset", "", "")) EXCEPT !.ret = "True"]

UninstallDeactivateFirst(w, confirmUninstall, answer) ==
    LET w0 == Deactivate(Asked(w, confirmUninstall))
    IN  IF Confirmed(w0, confirmUninstall, answer) = ACTION_VALIDATE_NO
        THEN [w0 EXCEPT !.ret = "False"]
        ELSE
          LET w2 == WriteSetting(w0, SettingKey(w0.cur.id), "None")
              w3 == UninstallFiles(w2)
          IN  IF w3.exc # NoExc THEN w3
              ELSE [DefaultValues(Emit(w3, "reset", "", "")) EXCEPT !.ret = "True"]

\* Plugin.uninstall
Uninstall(w, confirmUninstall, answer) ==
    LET w0 == Asked(w, confirmUninstall)
    IN  IF Confirmed(w0, confirmUninstall, answer) = ACTION_VALIDATE_NO
        THEN [w0 EXCEPT !.ret = "False"]
        ELSE
          LET w1 == Deactivate(Emit(w0, "deactivate", w0.cur.id, ""))
              w2 == WriteSetting(w1, SettingKey(w1.cur.id), "None")
              w3 == UninstallFiles(w2)
          IN  IF w3.exc # NoExc THEN w3
              ELSE [DefaultValues(Emit(w3, "reset", "", "")) EXCEPT !.ret = "True"]

\* the entries of an archive whose name ends with suffix: the list
\* comprehensions over archive.namelist() with re.search(... + '$', fileName)
NamesEnding(entries, suffix) ==
    SelectSeq([i \in 1..Len(entries) |-> entries[i].name],
              LAMBDA n : EndsWith(n, suffix))

\* the content of the archive member called name
EntryContent(entries, name) ==
    entries[CHOOSE i \in 1..Len(entries) : entries[i].name = name].content

\* len(os.path.dirname(fileName)), plus one for the separator when not empty
DirPrefixLength(fileName) ==
    IF Len(PathDirname(fileName)) > 0 THEN Len(PathDirname(fileName)) + 1 ELSE 0

\* Plugin.install, the loop over archive.infolist() that extracts the files
RECURSIVE ExtractLoop(_, _, _, _, _)
ExtractLoop(w, entries, i, rootPathLength, initPathLength) ==
    IF i > Len(entries) \/ w.exc # NoExc THEN w
    ELSE
      LET e == entries[i]
          w1 == IF PathBasename(e.name) = w.cur.id \o ".desktop"
                THEN IF PluginsPathRaises(w) THEN Raise(w, "NameError")
                     ELSE ZipExtract(w, e.name, Slice(e.name, rootPathLength),
                                     e.content, PluginsDir)
                ELSE IF PathBasename(e.name) = w.cur.id \o ".action"
                THEN ZipExtract(w, e.name, Slice(e.name, rootPathLength), e.content,
                                PathJoin(AppData, "actions"))
                ELSE IF Len(e.name) > initPathLength
                THEN ZipExtract(w, e.name, Slice(e.name, initPathLength), e.content,
                                w.cur.path)
                ELSE w
      IN  ExtractLoop(w1, entries, i + 1, rootPathLength, initPathLength)

\* an installer that consults the overwrite policy before it looks whether the
\* target directory exists
InstallIntoPolicyFirst(w, entries, desktopFileName, initFileName, overwrite, answer, beh) ==
    LET existed == OsExists(w, w.cur.path)
        w0 == Asked(w, overwrite)
        w1 == Emit(w0, "exists", w.cur.path, IF existed THEN "true" ELSE "false")
        w2 == IF existed THEN w1 ELSE OsMkdir(w1, w1.cur.path)
        w3 == ExtractLoop(w2, entries, 1, DirPrefixLength(desktopFileName),
                          DirPrefixLength(initFileName))
        w4 == Activate(Emit(w3, "activate", w3.cur.id, ""), beh)
    IN  IF Confirmed(w0, overwrite, answer) = ACTION_VALIDATE_NO THEN w0
        ELSE IF w2.exc # NoExc THEN w2
        ELSE IF w3.exc # NoExc THEN w3
        ELSE IF w4.exc # NoExc THEN w4
        ELSE [w4 EXCEPT !.ret = "Plugin"]

\* Plugin.install, from the check of the target directory on
InstallInto(w, entries, desktopFileName, initFileName, overwrite, answer, beh) ==
    LET existed == OsExists(w, w.cur.path)
        w1 == Emit(w, "exists", w.cur.path, IF existed THEN "true" ELSE "false")
        w2 == IF existed THEN Asked(w1, overwrite) ELSE OsMkdir(w1, w1.cur.path)
        w3 == ExtractLoop(w2, entries, 1, DirPrefixLength(desktopFileName),
                          DirPrefixLength(initFileName))
        w4 == Activate(Emit(w3, "activate", w3.cur.id, ""), beh)
    IN  IF existed /\ Confirmed(w1, overwrite, answer) = ACTION_VALIDATE_NO THEN w2
        ELSE IF w2.exc # NoExc THEN w2
        ELSE IF w3.exc # NoExc THEN w3
        ELSE IF w4.exc # NoExc THEN w4
        ELSE [w4 EXCEPT !.ret = "Plugin"]

\* an installer that takes the first manifest of an archive that holds several
InstallTryFirstManifest(w, entries, overwrite, answer, beh) ==
    LET desktopFile == NamesEnding(entries, ".desktop")
        w1 == LoadFromDesktopContent(DefaultValues(w),
                                     EntryContent(entries, desktopFile[1]))
        w2 == Emit(w1, "construct", w1.cur.id,
                   IF w1.cur.isActive THEN "active" ELSE "inactive")
        initFile == NamesEnding(entries, PathJoin(w1.cur.id, "__init__.py"))
    IN  IF Len(desktopFile) = 0 THEN w
        ELSE IF w1.exc # NoExc THEN w1
        ELSE IF ~w1.cur.isValid THEN w1
        ELSE IF Len(initFile) = 0 THEN w2
        ELSE InstallInto(w2, entries, desktopFile[1], initFile[1], overwrite, answer, beh)

\* Plugin.install, the body of the try statement
InstallTry(w, entries, overwrite, answer, beh) ==
    LET desktopFile == NamesEnding(entries, ".desktop")
        w1 == LoadFromDesktopContent(DefaultValues(w),
                                     EntryContent(entries, desktopFile[1]))
        w2 == Emit(w1, "construct", w1.cur.id,
                   IF w1.cur.isActive THEN "active" ELSE "inactive")
        initFile == NamesEnding(entries, PathJoin(w1.cur.id, "__init__.py"))
    IN  IF Len(desktopFile) = 0 THEN w
        ELSE IF Len(desktopFile) > 1 THEN w
        ELSE IF w1.exc # NoExc THEN w1
        ELSE IF ~w1.cur.isValid THEN w1
        ELSE IF Len(initFile) = 0 THEN w2
        ELSE InstallInto(w2, entries, desktopFile[1], initFile[1], overwrite, answer, beh)

\* an installer without the except clause: what is raised reaches the caller
InstallNoCatch(w, archive, overwrite, answer, beh) ==
    IF archive.kind = "missing" THEN w
    ELSE IF archive.kind = "notzip" THEN Raise(w, "BadZipFile")
    ELSE InstallTry(w, archive.entries, overwrite, answer, beh)

\* Plugin.install(zipFileName, overwrite); the archive is what zipFileName
\* holds: "missing" (no such file), "notzip" (no archive) or "zip" with entries.
\* Returns ret = "Plugin" with cur the new record, or ret = "None".
Install(w, archive, overwrite, answer, beh) ==
    IF archive.kind = "missing" THEN w
    ELSE
      LET w1 == IF archive.kind = "notzip" THEN Raise(w, "BadZipFile")
                ELSE InstallTry(w, archive.entries, overwrite, answer, beh)
      IN  IF w1.exc # NoExc
          THEN [Emit(w1, "caught", w1.exc, "") EXCEPT !.exc = NoExc, !.ret = "None"]
          ELSE w1

(***************************************************************************)
(* class Plugins, the registry.                                            *)
(***************************************************************************)
\* a registry that takes a manifest's exceptions to its caller
AppendPathNoCatch(w, path) ==
    LET w1 == LoadFromDesktopFile([w EXCEPT !.cur = VoidPlugin], path)
    IN  IF w1.exc # NoExc THEN [w EXCEPT !.exc = w1.exc]
        ELSE IF w1.cur.id # ""
        THEN [w EXCEPT !.plugins = FnPut(@, w1.cur.id, w1.cur), !.ret = "True"]
        ELSE [w EXCEPT !.ret = "False"]

\* a registry that files a record under the empty id as well
AppendPathAnyId(w, path) ==
    LET w1 == LoadFromDesktopFile([w EXCEPT !.cur = VoidPlugin], path)
    IN  IF w1.exc # NoExc THEN [w EXCEPT !.ret = "False"]
        ELSE [w EXCEPT !.plugins = FnPut(@, w1.cur.id, w1.cur), !.ret = "True"]

\* Plugins.append(plugin) for a manifest path: Plugin(path) in a try statement
AppendPath(w, path) ==
    LET w1 == LoadFromDesktopFile([w EXCEPT !.cur = VoidPlugin], path)
    IN  IF w1.exc # NoExc THEN [w EXCEPT !.ret = "False"]
        ELSE IF w1.cur.id # ""
        THEN [w EXCEPT !.plugins = FnPut(@, w1.cur.id, w1.cur), !.ret = "True"]
        ELSE [w EXCEPT !.ret = "False"]

\* an argument of a registry method: a string (isStr) or a value of another
\* type that is no Plugin either, such as None or a number
StrArg(v) == [isStr |-> TRUE, v |-> v]

OtherArg == [isStr |-> FALSE, v |-> ""]

\* Plugins.append(plugin), the argument a manifest path or no string and no Plugin
Append_(w, arg) ==
    IF arg.isStr THEN AppendPath(w, arg.v)
    ELSE [w EXCEPT !.ret = "False"]

\* Plugins.remove(id)
Remove(w, arg) ==
    IF ~arg.isStr THEN Raise(w, "EInvalidType")
    ELSE IF arg.v \in DOMAIN w.plugins THEN [w EXCEPT !.plugins = FnDrop(@, {arg.v})]
    ELSE w

\* Plugins.plugin(id): ret = "Plugin" with cur the record found, or ret = "None"
GetPlugin(w, arg) ==
    IF ~arg.isStr THEN Raise(w, "EInvalidType")
    ELSE IF arg.v \in DOMAIN w.plugins
    THEN [w EXCEPT !.cur = w.plugins[arg.v], !.ret = "Plugin"]
    ELSE w

\* the names os.scandir(Plugins.path()) yields: the files and directories
\* directly in the install root
ScanDir(w) ==
    {PathBasename(x) : x \in {y \in DOMAIN w.files \cup w.dirs : PathDirname(y) = PluginsDir}}

\* the names of the listing the loop of Plugins.__buildList does not skip
Manifests(w) == {n \in ScanDir(w) : EndsWith(n, ".desktop")}

\* Plugins.__buildList, the loop over the directory in the order scandir gives
RECURSIVE BuildLoop(_, _, _)
BuildLoop(w, order, i) ==
    IF i > Len(order) THEN w
    ELSE IF EndsWith(order[i], ".desktop")
    THEN BuildLoop(AppendPath(w, PathJoin(PluginsDir, order[i])), order, i + 1)
    ELSE BuildLoop(w, order, i + 1)

\* a listing that keeps the records of the previous one
BuildListNoReset(w, order) ==
    IF PluginsPathRaises(w) THEN Raise(w, "NameError")
    ELSE [BuildLoop(w, order, 1) EXCEPT !.ret = "None", !.cur = VoidPlugin]

\* a listing that skips the manifests of the ids the registry already held
BuildListIncremental(w, order) ==
    LET w0 == [w EXCEPT !.plugins = EmptyFn]
        w1 == BuildLoop(w0, order, 1)
    IN  IF PluginsPathRaises(w0) THEN Raise(w0, "NameError")
        ELSE [w1 EXCEPT !.plugins = [k \in DOMAIN w1.plugins \ DOMAIN w.plugins |-> w1.plugins[k]],
                        !.ret = "None", !.cur = VoidPlugin]

\* Plugins.__buildList (Plugins.__init__ and Plugins.refresh)
BuildList(w, order) ==
    LET w0 == [w EXCEPT !.plugins = EmptyFn]
    IN  IF PluginsPathRaises(w0) THEN Raise(w0, "NameError")
        ELSE [BuildLoop(w0, order, 1) EXCEPT !.ret = "None", !.cur = VoidPlugin]

\* one listing of the names of S
RECURSIVE Enumeration(_)
Enumeration(S) ==
    IF S = {} THEN <<>>
    ELSE LET x == CHOOSE y \in S : TRUE IN <<x>> \o Enumeration(S \ {x})

\* the orders in which a directory listing may come: os.scandir gives the
\* entries in arbitrary order; the orders taken are the cyclic shifts of one
\* listing, in which every two entries come in both relative orders
Orders(S) ==
    LET e == Enumeration(S)
        n == Len(e)
    IN  IF n = 0 THEN {<<>>}
        ELSE {[i \in 1..n |-> e[((i + k - 1) % n) + 1]] : k \in 0..(n - 1)}

(***************************************************************************)
(* Inputs: manifests, archives, initial hosts.                             *)
(***************************************************************************)
Header == [k |-> "[", v |-> "Desktop Entry"]

\* a well-formed manifest for plugin id
ManifestFor(id) ==
    <<Header, [k |-> "X-KDE-Library", v |-> id], [k |-> "Name", v |-> "The " \o id],
      [k |-> "Comment", v |-> "A plugin"], [k |-> "X-Krita-Manual", v |-> "Manual.html"]>>

\* a manifest with the section and no X-KDE-Library key
ManifestNoKey == <<Header, [k |-> "Name", v |-> "Nameless"]>>

\* a manifest without the [Desktop Entry] section
ManifestNoSection == <<[k |-> "[", v |-> "Other"], [k |-> "X-KDE-Library", v |-> "foo"]>>

\* the content of a file that is no manifest
Data == <<[k |-> "data", v |-> ""]>>

File(name, content) == [name |-> name, content |-> content]

Zip(entries) == [kind |-> "zip", entries |-> entries]

ArchiveTags ==
    {"missing", "notzip", "good", "nested", "twoManifests", "noManifest", "noInit",
     "suffixInit", "renamed", "badManifest", "noId"}

\* the archive an archive tag stands for
ArchiveOf(tag) ==
    CASE tag = "missing" -> [kind |-> "missing", entries |-> <<>>]
      [] tag = "notzip" -> [kind |-> "notzip", entries |-> <<>>]
      [] tag = "good" ->
           Zip(<<File("foo.desktop", ManifestFor("foo")), File("foo/", Data),
                 File("foo/__init__.py", Data), File("foo/helper.py", Data)>>)
      [] tag = "nested" ->
           Zip(<<File("README.md", Data), File("pkg/foo.desktop", ManifestFor("foo")),
                 File("pkg/foo.action", Data), File("pkg/foo/__init__.py", Data),
                 File("pkg/foo/helper.py", Data)>>)
      [] tag = "twoManifests" ->
           Zip(<<File("foo.desktop", ManifestFor("foo")),
                 File("bar.desktop", ManifestFor("bar")), File("foo/__init__.py", Data)>>)
      [] tag = "noManifest" -> Zip(<<File("foo/__init__.py", Data)>>)
      [] tag = "noInit" ->
           Zip(<<File("foo.desktop", ManifestFor("foo")), File("foo/helper.py", Data)>>)
      [] tag = "suffixInit" ->
           Zip(<<File("foo.desktop", ManifestFor("foo")), File("xfoo/__init__.py", Data)>>)
      [] tag = "renamed" ->
           Zip(<<File("plugin.desktop", ManifestFor("foo")), File("foo/__init__.py", Data)>>)
      [] tag = "badManifest" ->
           Zip(<<File("foo.desktop", ManifestNoSection), File("foo/__init__.py", Data)>>)
      [] tag = "noId" ->
           Zip(<<File("foo.desktop", ManifestNoKey), File("foo/__init__.py", Data)>>)

FooDir == PathJoin(PluginsDir, "foo")

\* the extension object and the action of plugin foo, registered by the host
\* when it loaded the enabled plugin at startup
FooExtension ==
    [dir |-> FooDir, acts |-> <<[name |-> "foo_act", menulocation |-> "tools/scripts"]>>]

\* the hosts the program may start on
HostTags == {"fresh", "empty", "alias"}

HostDirs(h) ==
    CASE h = "fresh" -> {AppData}
      [] h = "empty" -> {AppData, PluginsDir, ActionsDir}
      [] OTHER -> {AppData, PluginsDir, ActionsDir, FooDir, PathJoin(FooDir, "sub")}

HostFileNames(h) ==
    CASE h = "alias" -> {PathJoin(PluginsDir, "a.desktop"), PathJoin(PluginsDir, "b.desktop"),
                         PathJoin(PluginsDir, "c.desktop"),
                         PathJoin(ActionsDir, "foo.action"),
                         PathJoin(FooDir, "__init__.py"), PathJoin(FooDir, "sub/mod.py")}
      [] OTHER -> {}

HostFiles(h) ==
    [f \in HostFileNames(h) |->
        IF f = PathJoin(PluginsDir, "b.desktop") THEN ManifestNoKey
        ELSE IF f = PathJoin(PluginsDir, "c.desktop") THEN Data
        ELSE IF EndsWith(f, ".desktop") THEN ManifestFor("foo")
        ELSE Data]

\* the modules of plugin foo the host loaded at startup
FooModules ==
    [m \in {"foo", "foo.sub.mod"} |->
        IF m = "foo" THEN PathJoin(FooDir, "__init__.py") ELSE PathJoin(FooDir, "sub/mod.py")]

(***************************************************************************)
(* The state machine.  A Plugin object is named by a reference: a slot of  *)
(* the caller (heap) or a key of the registry (plugins).                   *)
(***************************************************************************)
Slots == 1..NumObjects

SlotRef(o) == [reg |-> FALSE, slot |-> o, key |-> ""]

RegRef(k) == [reg |-> TRUE, slot |-> 0, key |-> k]

NoRef == [reg |-> FALSE, slot |-> 0, key |-> ""]

Refs == {SlotRef(o) : o \in Slots} \cup {RegRef(k) : k \in DOMAIN plugins}

\* the Plugin object a reference names
Rec(ref) == IF ref.reg THEN plugins[ref.key] ELSE heap[ref.slot]

\* the value of the setting of plugin id, "absent" when the key is not there
SettingOf(store, id) ==
    IF SettingKey(id) \in DOMAIN store THEN store[SettingKey(id)] ELSE "absent"

\* the sequence of calls in progress: a record returned by install into a slot
\* ("installed"), then uninstalled at once ("uninstalled"), then a refresh
\* ("refreshed"); or an install that returned None ("failed", with what a
\* refresh before it would have listed), then a refresh ("failedRefreshed");
\* or the record of slot, or of registry key id, reset by an uninstall ("voided")
NoChain == [stage |-> "", slot |-> 0, id |-> "", listed |-> EmptyFn]

\* what plugins.refresh() would list in the present state
Listing ==
    BuildList(World(VoidPlugin),
              CHOOSE o \in Orders(Manifests(World(VoidPlugin))) : TRUE).plugins

NextChain(name, ref, w) ==
    IF name = "install" /\ w.ret = "Plugin"
    THEN [NoChain EXCEPT !.stage = "installed", !.slot = ref.slot, !.id = w.cur.id]
    ELSE IF name = "install"
    THEN [NoChain EXCEPT !.stage = "failed", !.listed = Listing]
    ELSE IF /\ name = "uninstall" /\ w.ret = "True" /\ w.exc = NoExc
            /\ last.chain.stage = "installed" /\ ref = SlotRef(last.chain.slot)
    THEN [last.chain EXCEPT !.stage = "uninstalled"]
    ELSE IF name = "uninstall" /\ w.ret = "True" /\ w.exc = NoExc
    THEN [NoChain EXCEPT !.stage = "voided", !.slot = ref.slot, !.id = ref.key]
    ELSE IF name = "refresh" /\ last.chain.stage = "uninstalled"
    THEN [last.chain EXCEPT !.stage = "refreshed"]
    ELSE IF name = "refresh" /\ last.chain.stage = "failed"
    THEN [last.chain EXCEPT !.stage = "failedRefreshed"]
    ELSE NoChain

\* the operation runs on the record the uninstall before it has reset
WasVoided(ref) ==
    /\ last.chain.stage \in {"uninstalled", "voided"}
    /\ ref = IF last.chain.slot # 0 THEN SlotRef(last.chain.slot) ELSE RegRef(last.chain.id)

\* the parts of the state an operation left different from what it found
Changed(w, ref) ==
    {x \in {"dirs", "files", "settings", "modules", "extensions", "actions", "menus",
            "record", "plugins"} :
        CASE x = "dirs" -> w.dirs # dirs
          [] x = "files" -> w.files # files
          [] x = "settings" -> w.settings # settings
          [] x = "modules" -> w.modules # modules
          [] x = "extensions" -> w.extensions # extensions
          [] x = "actions" -> w.actions # actions
          [] x = "menus" -> w.menus # menus
          [] x = "record" -> (ref.reg \/ ref.slot # 0) /\ w.cur # Rec(ref)
          [] x = "plugins" -> w.plugins # plugins}

\* the record of the operation that ran: what was called on what, what it
\* found (pre, preSetting), what it returned or raised, the calls it made (log)
Op(name, ref, arch, decision, answer, w) ==
    [op |-> name, ref |-> ref, arch |-> arch, decision |-> decision, answer |-> answer,
     ret |-> w.ret, exc |-> w.exc, log |-> w.log,
     pre |-> IF ref.reg \/ ref.slot # 0 THEN Rec(ref) ELSE VoidPlugin,
     preSetting |-> IF ref.reg \/ ref.slot # 0 THEN SettingOf(settings, Rec(ref).id)
                    ELSE "absent",
     changed |-> Changed(w, ref),
     voided |-> WasVoided(ref),
     argIsStr |-> TRUE, prePlugins |-> plugins, order |-> <<>>, denied |-> {},
     preActions |-> ActionNames(actions),
     chain |-> NextChain(name, ref, w)]

\* no operation is running: the caller has taken the result of the last one
Idle(chain) ==
    [op |-> "idle", ref |-> NoRef, arch |-> "", decision |-> -1, answer |-> FALSE,
     ret |-> "None", exc |-> NoExc, log |-> <<>>,
     pre |-> VoidPlugin, preSetting |-> "absent", changed |-> {},
     voided |-> FALSE,
     argIsStr |-> TRUE, prePlugins |-> EmptyFn, order |-> <<>>, denied |-> {},
     preActions |-> {},
     chain |-> chain]

\* the state after an operation: the world it left
Host(w) ==
    /\ dirs' = w.dirs
    /\ files' = w.files
    /\ settings' = w.settings
    /\ modules' = w.modules
    /\ extensions' = w.extensions
    /\ actions' = w.actions
    /\ menus' = w.menus
    /\ \A i \in 1..Len(w.extensions) : ExtCount(w.extensions, w.extensions[i].dir) <= MaxExt
    /\ steps' = steps + 1
    /\ ui' = ui

\* the object a method ran on, written back where the reference points
Store(w, ref) ==
    /\ heap' = IF ref.reg THEN w.heap ELSE [w.heap EXCEPT ![ref.slot] = w.cur]
    /\ plugins' = IF ref.reg THEN [w.plugins EXCEPT ![ref.key] = w.cur] ELSE w.plugins

\* plugin = Plugin(desktopFileName): the caller's slot o gets the new object,
\* unless the constructor raises
DoNew(o, name) ==
    /\ last.op = "idle"
    /\ steps < MaxOps
    /\ \E w \in {LoadFromDesktopFile(World(VoidPlugin), name)} :
        /\ Host(w)
        /\ heap' = IF w.exc = NoExc THEN [heap EXCEPT ![o] = w.cur] ELSE heap
        /\ plugins' = plugins
        /\ last' = Op("new", NoRef, name, -1, FALSE, w)
        /\ UNCHANGED installs

\* plugin.activate()
DoActivate(ref, beh) ==
    /\ last.op = "idle"
    /\ steps < MaxOps
    /\ \E w \in {Activate(World(Rec(ref)), beh)} :
        /\ Host(w)
        /\ Store(w, ref)
        /\ last' = Op("activate", ref, beh, -1, FALSE, w)
        /\ UNCHANGED installs

\* plugin.deactivate()
DoDeactivate(ref) ==
    /\ last.op = "idle"
    /\ steps < MaxOps
    /\ \E w \in {Deactivate(World(Rec(ref)))} :
        /\ Host(w)
        /\ Store(w, ref)
        /\ last' = Op("deactivate", ref, "", -1, FALSE, w)
        /\ UNCHANGED installs

\* the files whose removal the operating system may refuse during a call of
\* uninstall: none, or the manifest of the record
DeniedChoices(ref, confirmUninstall) ==
    IF confirmUninstall = ACTION_VALIDATE_YES /\ Rec(ref).desktopFile \in DOMAIN files
    THEN {{}, {Rec(ref).desktopFile}}
    ELSE {{}}

\* plugin.uninstall(confirmUninstall)
DoUninstall(ref, confirmUninstall, answer, denied) ==
    /\ last.op = "idle"
    /\ steps < MaxOps
    /\ denied \in DeniedChoices(ref, confirmUninstall)
    /\ \E w \in {Uninstall([World(Rec(ref)) EXCEPT !.denied = denied],
                             confirmUninstall, answer)} :
        /\ Host(w)
        /\ Store(w, ref)
        /\ last' = [Op("uninstall", ref, "", confirmUninstall, answer, w)
                       EXCEPT !.denied = denied]
        /\ UNCHANGED installs

\* plugin = Plugin.install(zipFileName, overwrite): the caller's slot o gets
\* the record returned, when one is returned
DoInstall(o, tag, overwrite, answer, beh) ==
    /\ last.op = "idle"
    /\ steps < MaxOps
    /\ installs < MaxInstalls
    /\ \E w \in {Install(World(VoidPlugin), ArchiveOf(tag), overwrite, answer, beh)} :
        /\ Host(w)
        /\ heap' = IF w.ret = "Plugin" THEN [heap EXCEPT ![o] = w.cur] ELSE heap
        /\ plugins' = plugins
        /\ last' = [Op("install", NoRef, tag, overwrite, answer, w) EXCEPT
                        !.ref = IF w.ret = "Plugin" THEN SlotRef(o) ELSE NoRef,
                        !.chain.slot = IF w.ret = "Plugin" THEN o ELSE 0]
        /\ installs' = installs + 1

\* the inputs of S the caller may give now: none while a call is in progress
\* or when the session is over
Caller(S) == IF last.op = "idle" /\ steps < MaxOps THEN S ELSE {}

\* the orders the listing of the install root may come in when the caller is
\* about to call plugins.refresh()
Listings == Caller(Orders(Manifests(World(VoidPlugin))))

\* plugins.refresh(), the directory listing giving the manifests in `order`
DoRefresh(order) ==
    /\ last.op = "idle"
    /\ steps < MaxOps
    /\ \E w \in {BuildList(World(VoidPlugin), order)} :
        /\ Host(w)
        /\ heap' = heap
        /\ plugins' = w.plugins
        /\ last' = [Op("refresh", NoRef, "", -1, FALSE, w) EXCEPT !.order = order]
        /\ UNCHANGED installs

\* plugins.append(arg)
DoAppend(arg) ==
    /\ last.op = "idle"
    /\ steps < MaxOps
    /\ \E w \in {Append_(World(VoidPlugin), arg)} :
        /\ Host(w)
        /\ heap' = heap
        /\ plugins' = w.plugins
        /\ last' = [Op("append", NoRef, arg.v, -1, FALSE, w) EXCEPT !.argIsStr = arg.isStr]
        /\ UNCHANGED installs

\* plugins.remove(arg)
DoRemove(arg) ==
    /\ last.op = "idle"
    /\ steps < MaxOps
    /\ \E w \in {Remove(World(VoidPlugin), arg)} :
        /\ Host(w)
        /\ heap' = heap
        /\ plugins' = w.plugins
        /\ last' = [Op("remove", NoRef, arg.v, -1, FALSE, w) EXCEPT !.argIsStr = arg.isStr]
        /\ UNCHANGED installs

\* plugins.plugin(arg)
DoGet(arg) ==
    /\ last.op = "idle"
    /\ steps < MaxOps
    /\ \E w \in {GetPlugin(World(VoidPlugin), arg)} :
        /\ Host(w)
        /\ heap' = heap
        /\ plugins' = w.plugins
        /\ last' = [Op("get", NoRef, arg.v, -1, FALSE, w) EXCEPT !.argIsStr = arg.isStr]
        /\ UNCHANGED installs

\* the caller takes the result of the operation and goes on
DoReturn ==
    /\ last.op # "idle"
    /\ last' = Idle(IF last.chain.stage \in {"refreshed", "failedRefreshed"}
                     THEN NoChain ELSE last.chain)
    /\ UNCHANGED <<dirs, files, settings, modules, extensions, actions, menus, heap,
                   plugins, installs, steps, ui>>

\* a decision and, when it is to ask, the user's answer to the question
Choices ==
    {[decision |-> ACTION_VALIDATE_ASK, answer |-> TRUE],
     [decision |-> ACTION_VALIDATE_ASK, answer |-> FALSE],
     [decision |-> ACTION_VALIDATE_YES, answer |-> TRUE],
     [decision |-> ACTION_VALIDATE_NO, answer |-> FALSE]}

\* the manifest paths a caller may construct a Plugin from
ManifestNames ==
    {"None", PathJoin(PluginsDir, "foo.desktop"), PathJoin(PluginsDir, "a.desktop"),
     PathJoin(PluginsDir, "b.desktop"), PathJoin(PluginsDir, "c.desktop"),
     PathJoin(FooDir, "__init__.py")}

\* what the entry modules of the archives do
ArchiveBehaviours == {"fail", "ext"}

\* the arguments a caller may give to a method of the registry
AppendArgs ==
    {StrArg(PathJoin(PluginsDir, n)) : n \in {"a.desktop", "b.desktop", "c.desktop"}}
        \cup {OtherArg}

IdArgs == {StrArg("foo"), OtherArg}

\* no dialog is open
NoWindow ==
    [rows |-> <<>>, check |-> <<>>, selected |-> 0, button |-> FALSE, pending |-> <<>>,
     handled |-> 0, tick |-> FALSE, event |-> "", row |-> 0, preActive |-> EmptyFn,
     exc |-> NoExc]

\* the world of a host the program starts on
InitWorld(h, enable) ==
    LET started == h = "alias" /\ enable = "true"
    IN  [dirs |-> HostDirs(h), files |-> HostFiles(h),
         settings |-> IF enable = "absent" THEN EmptyFn
                      ELSE [k \in {SettingKey("foo")} |-> enable],
         modules |-> IF started THEN FooModules ELSE EmptyFn,
         extensions |-> IF started THEN <<FooExtension>> ELSE <<>>,
         actions |-> IF started THEN FooExtension.acts ELSE <<>>,
         menus |-> [m \in MenuWidgets |-> <<>>],
         heap |-> [o \in Slots |-> VoidPlugin], plugins |-> EmptyFn,
         cur |-> VoidPlugin, exc |-> NoExc, ret |-> "None", log |-> <<>>, denied |-> {}]

Init ==
    \E h \in HostTags, enable \in {"absent", "true", "false"} :
      \E order \in Orders(Manifests(InitWorld(h, enable))) :
        LET w == BuildList(InitWorld(h, enable), order)
        IN  /\ dirs = w.dirs
            /\ files = w.files
            /\ settings = w.settings
            /\ modules = w.modules
            /\ extensions = w.extensions
            /\ actions = w.actions
            /\ menus = w.menus
            /\ heap = w.heap
            /\ plugins = w.plugins
            /\ last = Idle(NoChain)
            /\ installs = 0
            /\ steps = 0
            /\ ui = NoWindow

Next ==
    \/ \E o \in Caller(Slots), name \in ManifestNames : DoNew(o, name)
    \/ \E ref \in Caller(Refs), beh \in Behaviours : DoActivate(ref, beh)
    \/ \E ref \in Caller(Refs) : DoDeactivate(ref)
    \/ \E ref \in Caller(Refs), c \in Choices :
          \E denied \in DeniedChoices(ref, c.decision) :
             DoUninstall(ref, c.decision, c.answer, denied)
    \/ \E o \in Caller(Slots), tag \in ArchiveTags, c \in Choices, beh \in ArchiveBehaviours :
          DoInstall(o, tag, c.decision, c.answer, beh)
    \/ \E order \in Listings : DoRefresh(order)
    \/ \E arg \in Caller(AppendArgs) : DoAppend(arg)
    \/ \E arg \in Caller(IdArgs) : DoRemove(arg)
    \/ \E arg \in Caller(IdArgs) : DoGet(arg)
    \/ DoReturn

Spec == Init /\ [][Next]_vars

(***************************************************************************)
(* The dialog, class PMWindow.  A row of the list holds the Plugin object  *)
(* of the registry it was built from (ui.rows: row -> key of plugins) and  *)
(* a check state.  Qt delivers itemChanged inside setCheckState; here the  *)
(* signal waits in ui.pending and the handler runs as the next step.       *)
(***************************************************************************)
BarDir == PathJoin(PluginsDir, "bar")

\* the extension object and the action the host registered for plugin id
\* when it loaded the enabled plugin at startup
StartedExtension(id) ==
    [dir |-> PathJoin(PluginsDir, id),
     acts |-> <<[name |-> id \o "_act", menulocation |-> "tools/scripts"]>>]

\* the ids of a settings choice that are enabled, in the order the host loads them
StartedIds(enable) == SelectSeq(<<"bar", "foo">>, LAMBDA id : enable[id] = "true")

\* the world of a host with the plugins foo and bar installed
WindowWorld(enable) ==
    LET started == StartedIds(enable)
        exts == [i \in 1..Len(started) |-> StartedExtension(started[i])]
    IN  [dirs |-> {AppData, PluginsDir, ActionsDir, FooDir, BarDir},
         files |-> [f \in {PathJoin(PluginsDir, "foo.desktop"),
                           PathJoin(PluginsDir, "bar.desktop"),
                           PathJoin(FooDir, "__init__.py"),
                           PathJoin(BarDir, "__init__.py")} |->
                       IF f = PathJoin(PluginsDir, "foo.desktop") THEN ManifestFor("foo")
                       ELSE IF f = PathJoin(PluginsDir, "bar.desktop") THEN ManifestFor("bar")
                       ELSE Data],
         settings |-> [k \in {SettingKey("foo"), SettingKey("bar")} |->
                          IF k = SettingKey("foo") THEN enable.foo ELSE enable.bar],
         modules |-> [m \in {started[i] : i \in 1..Len(started)} |->
                         PathJoin(PathJoin(PluginsDir, m), "__init__.py")],
         extensions |-> exts,
         actions |-> [i \in 1..Len(exts) |-> exts[i].acts[1]],
         menus |-> [m \in MenuWidgets |-> <<>>],
         heap |-> [o \in Slots |-> VoidPlugin], plugins |-> EmptyFn,
         cur |-> VoidPlugin, exc |-> NoExc, ret |-> "None", log |-> <<>>, denied |-> {}]

\* PMPluginList.selectedPlugin(): the key of the record of the selected row,
\* "None" when no row is selected
SelectedPlugin(u) == IF u.selected = 0 THEN "None" ELSE u.rows[u.selected]

\* an item that reports every setCheckState as a change
SetCheckStateAlways(u, r, state) ==
    [u EXCEPT !.check[r] = state, !.pending = Append(@, r)]

\* QStandardItem.setCheckState(state) on the item of a row: the model emits
\* itemChanged when the state differs from the one the item has
SetCheckState(u, r, state) ==
    IF u.check[r] = state THEN u
    ELSE [u EXCEPT !.check[r] = state, !.pending = Append(@, r)]

\* PMWindow.__updateButtons: the activate button shows the selected plugin's
\* isActive
UpdateButtons(w, u) ==
    [u EXCEPT !.button = IF u.selected = 0 THEN FALSE
                         ELSE w.plugins[SelectedPlugin(u)].isActive]

\* a method of the selected plugin's record: the record is the registry's
WithSelected(w, u) == [w EXCEPT !.cur = w.plugins[SelectedPlugin(u)]]

Stored(w, u) == [w EXCEPT !.plugins[SelectedPlugin(u)] = w.cur, !.cur = VoidPlugin]

\* PMWindow.activatePlugin; an exception of activate() leaves the method
ActivatePlugin(w, u, beh) ==
    IF u.selected = 0 THEN [w |-> w, u |-> u]
    ELSE
      LET w1 == Stored(Activate(WithSelected(w, u), beh), u)
      IN  IF w1.exc # NoExc THEN [w |-> w1, u |-> u]
          ELSE [w |-> w1, u |-> UpdateButtons(w1, SetCheckState(u, u.selected, TRUE))]

\* PMWindow.deactivatePlugin
DeactivatePlugin(w, u) ==
    IF u.selected = 0 THEN [w |-> w, u |-> u]
    ELSE
      LET w1 == Stored(Deactivate(WithSelected(w, u)), u)
      IN  [w |-> w1, u |-> UpdateButtons(w1, SetCheckState(u, u.selected, FALSE))]

\* PMWindow.__itemChanged(value), value the item of row r
ItemChanged(w, u, r, beh) ==
    IF u.check[r] THEN ActivatePlugin(w, u, beh) ELSE DeactivatePlugin(w, u)

\* PMWindow.__activatePlugin(action), action the checked state of the button
ActivateClicked(w, u, action, beh) ==
    IF action THEN ActivatePlugin(w, u, beh) ELSE DeactivatePlugin(w, u)

\* the isActive flags of the registry's records
ActiveFlags(regs) == [k \in DOMAIN regs |-> regs[k].isActive]

\* PMWindow.__init__: the registry is built, a row is added for each of its
\* records (PMPluginList.addPlugin) and the first row is selected
WindowInit ==
    \E enable \in [{"foo", "bar"} -> {"true", "false"}] :
      \E order \in Orders(Manifests(WindowWorld(enable))) :
        LET w == BuildList(WindowWorld(enable), order)
            keys == SelectSeq([i \in 1..Len(order) |-> Prefix(order[i], Len(order[i]) - 8)],
                              LAMBDA k : k \in DOMAIN w.plugins)
        IN  /\ dirs = w.dirs
            /\ files = w.files
            /\ settings = w.settings
            /\ modules = w.modules
            /\ extensions = w.extensions
            /\ actions = w.actions
            /\ menus = w.menus
            /\ heap = w.heap
            /\ plugins = w.plugins
            /\ last = Idle(NoChain)
            /\ installs = 0
            /\ steps = 0
            /\ ui = UpdateButtons(w,
                      [NoWindow EXCEPT !.rows = keys,
                                       !.check = [r \in 1..Len(keys) |->
                                                     w.plugins[keys[r]].isActive],
                                       !.selected = IF keys = <<>> THEN 0 ELSE 1])

\* the state after a step of the dialog
WindowHost(res) ==
    /\ dirs' = res.w.dirs
    /\ files' = res.w.files
    /\ settings' = res.w.settings
    /\ modules' = res.w.modules
    /\ extensions' = res.w.extensions
    /\ actions' = res.w.actions
    /\ menus' = res.w.menus
    /\ plugins' = res.w.plugins
    /\ \A i \in 1..Len(res.w.extensions) :
          ExtCount(res.w.extensions, res.w.extensions[i].dir) <= MaxExt
    /\ UNCHANGED <<heap, last, installs>>

\* the user changes the selection to row r, or to no row (r = 0):
\* PMWindow.__selectionChanged
SelectRow(r) ==
    /\ ui.pending = <<>>
    /\ steps < MaxClicks
    /\ r # ui.selected
    /\ ui' = [UpdateButtons(World(VoidPlugin), [ui EXCEPT !.selected = r])
                 EXCEPT !.event = "select", !.row = r, !.handled = 0,
                        !.preActive = ActiveFlags(plugins)]
    /\ steps' = steps + 1
    /\ UNCHANGED <<dirs, files, settings, modules, extensions, actions, menus, heap,
                   plugins, last, installs>>

\* the user toggles the check box of row r: the item's state changes and the
\* model emits itemChanged
ToggleRow(r) ==
    /\ ui.pending = <<>>
    /\ steps < MaxClicks
    /\ plugins[ui.rows[r]].isValid
    /\ ui' = [SetCheckState(ui, r, ~ui.check[r])
                 EXCEPT !.event = "toggle", !.row = r, !.handled = 0,
                        !.preActive = ActiveFlags(plugins)]
    /\ steps' = steps + 1
    /\ UNCHANGED <<dirs, files, settings, modules, extensions, actions, menus, heap,
                   plugins, last, installs>>

\* the user clicks the activate button, enabled for a selected valid plugin:
\* the button changes its checked state and __activatePlugin runs
ClickActivate(beh) ==
    /\ ui.pending = <<>>
    /\ steps < MaxClicks
    /\ ui.selected # 0
    /\ plugins[SelectedPlugin(ui)].isValid
    /\ \E res \in {ActivateClicked(World(VoidPlugin),
                                   [ui EXCEPT !.button = ~ui.button, !.event = "click",
                                              !.row = ui.selected, !.handled = 0,
                                              !.preActive = ActiveFlags(plugins)],
                                   ~ui.button, beh)} :
        /\ WindowHost(res)
        /\ ui' = [res.u EXCEPT !.exc = IF res.w.exc # NoExc THEN res.w.exc ELSE @]
    /\ steps' = steps + 1

\* the handler of itemChanged runs for the signal that waits first
HandleItemChanged(beh) ==
    /\ ui.pending # <<>>
    /\ \E res \in {ItemChanged(World(VoidPlugin), [ui EXCEPT !.pending = Tail(@)],
                               Head(ui.pending), beh)} :
        /\ WindowHost(res)
        /\ ui' = [res.u EXCEPT !.handled = IF @ < MaxHandled THEN @ + 1 ELSE @,
                               !.tick = ~@,
                               !.exc = IF res.w.exc # NoExc THEN res.w.exc ELSE @]
    /\ steps' = steps

\* what the entry modules of the plugins of the dialog do
WindowBehaviours == {"fail", "ext"}

WindowNext ==
    \/ \E r \in 0..Len(ui.rows) : SelectRow(r)
    \/ \E r \in 1..Len(ui.rows) : ToggleRow(r)
    \/ \E beh \in WindowBehaviours : ClickActivate(beh)
    \/ \E beh \in WindowBehaviours : HandleItemChanged(beh)

\* event handling is quiescent: no signal waits for its handler
Quiescent == ui.pending = <<>>

HandlerRuns == \E beh \in WindowBehaviours : HandleItemChanged(beh)

\* Qt runs the handler of a signal that was emitted: weak fairness of the
\* handler, WF_vars(HandlerRuns), with ENABLED <<HandlerRuns>>_vars written as
\* what it is, a signal is pending (the handler of a pending signal can always
\* run, and each run changes ui.tick)
WindowSpec ==
    WindowInit /\ [][WindowNext]_vars
        /\ ([]<>Quiescent \/ []<><<HandlerRuns>>_vars)

(***************************************************************************)
(* The claims.                                                             *)
(***************************************************************************)
\* the operation that ran went ahead: decision yes, or ask answered yes
Proceeded ==
    \/ last.decision = ACTION_VALIDATE_YES
    \/ last.decision = ACTION_VALIDATE_ASK /\ last.answer

\* the positions in the log of the events of kind ev
Positions(ev) == {i \in 1..Len(last.log) : last.log[i].ev = ev}

\* C1: after Activate completes on a valid record with id X, the setting
\* enable_X reads 'true' and the record is active, whatever the settings store
\* held and whatever other records for X exist.
\* (checked where the plugin's manifest and entry file are still on disk)
C1_ActivateEnables ==
    (/\ last.op = "activate" /\ last.exc = NoExc /\ last.pre.isValid
     /\ last.pre.desktopFile \in DOMAIN files
     /\ PathJoin(last.pre.path, "__init__.py") \in DOMAIN files)
        => /\ SettingOf(settings, last.pre.id) = "true"
           /\ Rec(last.ref).isActive

\* C2: Activate on an already active record and Deactivate on an already
\* inactive record change nothing: not the record, the settings store, the
\* module table, the actions and menus; and no host or filesystem call is made.
C2_NoOpWhenAlreadyThere ==
    (\/ last.op = "activate" /\ last.pre.isActive
     \/ last.op = "deactivate" /\ ~last.pre.isActive)
        => /\ last.changed = {}
           /\ last.log = <<>>
           /\ last.exc = NoExc

C2_Witness ==
    /\ last.op = "activate"
    /\ last.pre.isValid
    /\ last.pre.isActive
    /\ last.preSetting = "false"

\* C3: a proceeding Uninstall of a valid (installed) record returns true with
\* the settings key removed, the manifest, the action file and the install
\* directory absent and the record void; Deactivate runs before the key is
\* removed and before any file is deleted.
\* (checked where the operating system refuses no removal)
C3_UninstallRemoves ==
    (last.op = "uninstall" /\ Proceeded /\ last.pre.isValid /\ last.denied = {})
        => /\ last.exc = NoExc
           /\ last.ret = "True"
           /\ SettingOf(settings, last.pre.id) = "absent"
           /\ last.pre.desktopFile \notin DOMAIN files
           /\ PathJoin(ActionsDir, last.pre.id \o ".action") \notin DOMAIN files
           /\ PathNorm(last.pre.path) \notin dirs
           /\ \A f \in DOMAIN files : ~PathUnder(f, last.pre.path)
           /\ Rec(last.ref) = VoidPlugin
           /\ \E d \in Positions("deactivate") :
                /\ \A i \in Positions("remove") \cup Positions("rmtree") : d < i
                /\ \A i \in Positions("writeSetting") :
                      last.log[i].b = "None" => d < i
                /\ last.pre.isActive =>
                      \E i \in Positions("writeSetting"), j \in Positions("writeSetting") :
                          /\ d < i /\ i < j
                          /\ last.log[i].b = "false" /\ last.log[j].b = "None"

C3_Witness ==
    /\ last.op = "uninstall"
    /\ Proceeded
    /\ last.pre.isValid
    /\ last.pre.isActive
    /\ last.preSetting = "true"
    /\ Positions("remove") # {}
    /\ Positions("rmtree") # {}

\* C4: an aborted Uninstall (decision no, or ask answered no) changes nothing
\* and returns false without raising.
C4_UninstallAbort ==
    (last.op = "uninstall" /\ ~Proceeded)
        => /\ last.changed = {}
           /\ last.ret = "False"
           /\ last.exc = NoExc
           /\ \A i \in 1..Len(last.log) : last.log[i].ev = "ask"

C4_Witness ==
    /\ last.op = "uninstall"
    /\ ~Proceeded
    /\ last.pre.isValid
    /\ last.pre.isActive
    /\ last.ret = "False"

\* the manifest files of the install root that declare plugin id
Declaring(id) ==
    {f \in DOMAIN files :
        /\ PathDirname(f) = PluginsDir
        /\ EndsWith(f, ".desktop")
        /\ LoadFromDesktopFile(World(VoidPlugin), f).cur.id = id}

\* the round trip: a successful install, then a proceeding uninstall of the
\* record install returned; what it leaves
RoundTripClean ==
    (last.op = "uninstall" /\ last.chain.stage = "uninstalled")
        => /\ PathNorm(last.pre.path) \notin dirs
           /\ \A f \in DOMAIN files : ~PathUnder(f, last.pre.path)
           /\ last.pre.desktopFile \notin DOMAIN files
           /\ SettingOf(settings, last.chain.id) = "absent"

\* C5 as stated: for every initial content, after a successful install for id
\* X and a proceeding uninstall of the returned record, <root>/X, the manifest
\* and enable_X are absent and a following refresh() does not list X.
C5_RoundTripAnyContent ==
    /\ RoundTripClean
    /\ (last.chain.stage = "refreshed") => last.chain.id \notin DOMAIN plugins

\* C5, amended: the same, where no other manifest file of the install root
\* declares X (install writes no manifest but <root>/X.desktop, which the
\* uninstall removed, so a manifest left declaring X was there before).
C5_RoundTrip ==
    /\ RoundTripClean
    /\ (last.chain.stage = "refreshed" /\ Declaring(last.chain.id) = {})
          => last.chain.id \notin DOMAIN plugins

C5_Witness ==
    /\ last.chain.stage = "refreshed"
    /\ last.op = "refresh"
    /\ last.chain.id = "foo"
    /\ Declaring("foo") = {}
    /\ PathJoin(PluginsDir, "b.desktop") \in DOMAIN files

\* the events of kind ev the operation logged after position p
After(p, ev) == {i \in Positions(ev) : i > p}

\* C6: a successful Install constructs its record inactive, whatever the
\* settings store held for the id, and then runs Activate in full: 'true'
\* written to enable_<id>, the entry module loaded, the extensions correlated.
C6_InstallActivatesInFull ==
    (last.op = "install" /\ last.ret = "Plugin")
        => /\ \A c \in Positions("construct") : last.log[c].b = "inactive"
           /\ \E a \in Positions("activate") :
                /\ \E i \in After(a, "writeSetting") : last.log[i].b = "true"
                /\ After(a, "loadModule") # {}
                /\ After(a, "snapshot") # {}

\* the number of manifest files (entries ending in .desktop) of the archive
\* the install that ran was given
ManifestCount == Len(NamesEnding(ArchiveOf(last.arch).entries, ".desktop"))

\* C7: Install of an archive that holds no manifest file, or two or more,
\* returns null and changes nothing: not the files and directories of the
\* install root and the actions directory, nor the settings store.
C7_ManifestCountRejected ==
    (/\ last.op = "install"
     /\ ArchiveOf(last.arch).kind = "zip"
     /\ ManifestCount # 1)
        => /\ last.ret = "None"
           /\ last.exc = NoExc
           /\ last.changed = {}
           /\ last.log = <<>>

C7_Witness ==
    /\ last.op = "install"
    /\ ArchiveOf(last.arch).kind = "zip"
    /\ ManifestCount = 2
    /\ last.ret = "None"
    /\ PluginsDir \in dirs
    /\ Proceeded

\* the names of the entries of the archive the install that ran was given
EntryNames ==
    {ArchiveOf(last.arch).entries[i].name : i \in 1..Len(ArchiveOf(last.arch).entries)}

\* the archive holds the entry file of plugin id where the manifest says it
\* is: at <id>/__init__.py relative to the directory of the manifest
HasEntryPoint(id) ==
    \E m \in EntryNames :
        /\ EndsWith(m, ".desktop")
        /\ PathJoin(PathDirname(m), PathJoin(id, "__init__.py")) \in EntryNames

\* C8: Install of an archive with exactly one manifest, for id X, and no entry
\* at X/__init__.py relative to the manifest's directory returns null and
\* creates no directory; an entry whose name only ends with the characters
\* X/__init__.py does not count.
C8_NoEntryPointRejected ==
    (/\ last.op = "install"
     /\ ArchiveOf(last.arch).kind = "zip"
     /\ ManifestCount = 1
     /\ \E c \in Positions("construct") : ~HasEntryPoint(last.log[c].a))
        => /\ last.ret = "None"
           /\ Positions("mkdir") = {}
           /\ "dirs" \notin last.changed

\* the install that ran found its target directory there (b = "true") or not
TargetExisted(b) == \E e \in Positions("exists") : last.log[e].b = b

\* C9: when the target directory exists and the overwrite policy is force-no,
\* or ask answered no, Install returns null and touches no file, directory,
\* setting or module; when the directory does not exist the policy is not
\* consulted: nothing is asked and the directory is made whatever the policy.
C9_OverwritePolicy ==
    /\ (last.op = "install" /\ TargetExisted("true") /\ ~Proceeded)
          => /\ last.ret = "None"
             /\ last.exc = NoExc
             /\ last.changed = {}
             /\ \A i \in 1..Len(last.log) : last.log[i].ev \in {"construct", "exists", "ask"}
    /\ (last.op = "install" /\ TargetExisted("false"))
          => /\ Positions("ask") = {}
             /\ \E e \in Positions("exists") : After(e, "mkdir") # {}

C9_Witness ==
    /\ last.op = "install"
    /\ TargetExisted("true")
    /\ last.decision = ACTION_VALIDATE_ASK
    /\ ~last.answer
    /\ Positions("ask") # {}
    /\ last.ret = "None"

\* the directory of the entry module of plugin id in the archive: <id>/ next
\* to the manifest
EntryDir(id) ==
    CHOOSE d \in {PathJoin(PathDirname(m), id) : m \in {n \in EntryNames : EndsWith(n, ".desktop")}} :
        TRUE

\* C10: of a successful Install, the manifest is extracted into the install
\* root whatever its file name is, and what is extracted into the plugin's
\* directory <root>/<id> is an entry of the entry module's directory, with
\* that prefix stripped, and never the manifest.
C10_ExtractionRouting ==
    (last.op = "install" /\ last.ret = "Plugin" /\ ManifestCount = 1)
        => \E c \in Positions("construct") :
              LET id == last.log[c].a
                  pluginDir == PathJoin(PluginsDir, id)
              IN  /\ \A m \in EntryNames :
                        EndsWith(m, ".desktop") =>
                            \E x \in Positions("extract") :
                                /\ last.log[x].a = m
                                /\ PathDirname(last.log[x].b) = PluginsDir
                  /\ \A x \in Positions("extract") :
                        PathUnder(last.log[x].b, pluginDir) =>
                            /\ ~EndsWith(last.log[x].a, ".desktop")
                            /\ StartsWith(last.log[x].a, EntryDir(id) \o "/")
                            /\ last.log[x].b =
                                 PathJoin(pluginDir,
                                          Slice(last.log[x].a, Len(EntryDir(id)) + 1))

\* C11: no exception escapes Install for a string archive path: whatever is
\* raised while the archive is opened, validated or extracted, or by the final
\* Activate, is caught and Install returns null.
C11_InstallCatches ==
    (last.op = "install")
        => /\ last.exc = NoExc
           /\ last.ret \in {"None", "Plugin"}
           /\ Positions("caught") # {} => last.ret = "None"

C11_Witness ==
    /\ last.op = "install"
    /\ \E c \in Positions("caught") : last.log[c].a = "ImportError"
    /\ Positions("loadModule") # {}
    /\ last.ret = "None"

\* C12: a failed install produces no new list entry: when Install returned
\* null, the registry after a following refresh() holds no plugin id, and no
\* record, that a refresh before the install attempt would not have listed.
C12_FailedInstallNotListed ==
    (last.op = "refresh" /\ last.chain.stage = "failedRefreshed")
        => \A k \in DOMAIN plugins :
              /\ k \in DOMAIN last.chain.listed
              /\ plugins[k] = last.chain.listed[k]

\* C13: in every reachable state every record with isValid true has a
\* non-empty id: a manifest without the [Desktop Entry] section or without the
\* X-KDE-Library key never yields a valid record.
C13_ValidHasId ==
    /\ \A o \in Slots : heap[o].isValid => heap[o].id # ""
    /\ \A k \in DOMAIN plugins : plugins[k].isValid => plugins[k].id # ""

\* C14: uninstalled is terminal: once Uninstall has reset a record to the
\* void state, no Activate, Deactivate or Uninstall on that record changes the
\* record's fields, the settings store or the module table.
C14_UninstalledTerminal ==
    (last.op \in {"activate", "deactivate", "uninstall"} /\ last.voided)
        => /\ Rec(last.ref) = VoidPlugin
           /\ last.changed \cap {"record", "settings", "modules"} = {}

\* C15: after Deactivate on an active record the setting enable_<id> is
\* 'false', the record is inactive and the module table holds no module whose
\* file lies under the plugin's install directory, at any depth.
C15_DeactivateUnloads ==
    (/\ last.op = "deactivate" /\ last.exc = NoExc
     /\ last.pre.isValid /\ last.pre.isActive /\ last.pre.id # "")
        => /\ SettingOf(settings, last.pre.id) = "false"
           /\ ~Rec(last.ref).isActive
           /\ \A m \in DOMAIN modules : ~PathUnder(modules[m], last.pre.path)

\* the menus that hold the action called name
MenusHolding(name) ==
    {m \in MenuWidgets : \E i \in 1..Len(menus[m]) : menus[m][i] = name}

RootManifests ==
    {f \in DOMAIN files : PathDirname(f) = PluginsDir /\ EndsWith(f, ".desktop")}

\* the text of a manifest parses: it is read without error and has the
\* [Desktop Entry] section
Parses(text) == ~ConfigParse(text).err /\ "Desktop Entry" \in ConfigParse(text).sections

\* the non-empty ids the manifest files of the install root declare
DeclaredIds ==
    {CfgGet(ConfigParse(files[f]), "X-KDE-Library", "") :
        f \in {g \in RootManifests : Parses(files[g])}} \ {""}

\* C17: after refresh(), whatever the registry held before, its ids are
\* exactly the non-empty ids the manifest files of the install directory
\* declare; a corrupt manifest gives no record and no exception and does not
\* keep the other manifests from being listed.
C17_RefreshReflectsManifests ==
    (last.op = "refresh")
        => /\ DOMAIN plugins = DeclaredIds
           /\ \A k \in DOMAIN plugins : plugins[k].id = k /\ plugins[k].isValid
           /\ PluginsDir \in dirs => last.exc = NoExc

C17_Witness ==
    /\ last.op = "refresh"
    /\ last.exc = NoExc
    /\ \E f \in RootManifests : ~Parses(files[f])
    /\ \E k \in DOMAIN last.prePlugins : k \notin DeclaredIds

\* C18: refresh() is idempotent: a second refresh() right after the first,
\* with the filesystem and the settings store as the first left them and the
\* directory listed in the same order, gives a registry with the same ids and,
\* for each id, the same record.
C18_RefreshIdempotent ==
    (last.op = "refresh")
        => LET again == BuildList(World(VoidPlugin), last.order)
           IN  /\ again.plugins = plugins
               /\ again.exc = last.exc
               /\ again.files = files /\ again.dirs = dirs /\ again.settings = settings

C18_Witness ==
    /\ last.op = "refresh"
    /\ last.exc = NoExc
    /\ last.prePlugins # plugins
    /\ Len(last.order) >= 2
    /\ \E k \in DOMAIN plugins : plugins[k].isActive
    /\ BuildList(World(VoidPlugin), last.order).plugins = plugins

\* the manifest path gives no record with an id: it is no file, it does not
\* parse, or it declares no id
NoIdAt(path) ==
    \/ path \notin DOMAIN files
    \/ ~EndsWith(path, ".desktop")
    \/ ~Parses(files[path])
    \/ CfgGet(ConfigParse(files[path]), "X-KDE-Library", "") = ""

\* the operation that ran left the registry and the rest of the state as found
Untouched == last.changed = {} /\ plugins = last.prePlugins

\* C19: a registry operation that fails leaves the id-to-record mapping
\* unchanged: append returns False without mutating when the manifest path
\* cannot be parsed, the id is empty or the argument is no string and no
\* record; get and remove raise EInvalidType without mutating when the id is
\* no string.
C19_FailedRegistryOpKeeps ==
    /\ (last.op = "append" /\ (~last.argIsStr \/ NoIdAt(last.arch)))
          => last.ret = "False" /\ last.exc = NoExc
    /\ (last.op = "append" /\ last.ret = "False") => Untouched
    /\ (last.op \in {"remove", "get"} /\ ~last.argIsStr)
          => last.exc = "EInvalidType" /\ Untouched

C19_Witness ==
    /\ last.op = "append"
    /\ last.argIsStr
    /\ last.arch \in DOMAIN files
    /\ Parses(files[last.arch])
    /\ last.ret = "False"
    /\ DOMAIN plugins # {}

\* C20: a filesystem error while Uninstall deletes the manifest, the action
\* file or the install directory is caught inside uninstall and reported as
\* False: no exception reaches the caller.
C20_UninstallSoftFailure ==
    (last.op = "uninstall" /\ last.denied # {})
        => last.exc = NoExc /\ last.ret = "False"

\* the Plugin objects the caller and the registry hold
AllRecords == {heap[o] : o \in Slots} \cup {plugins[k] : k \in DOMAIN plugins}

\* C21: in every state reached by install, activate, deactivate, uninstall
\* and refresh, each valid record's isActive flag says whether the setting
\* enable_<id> is 'true'.
C21_IsActiveMirrorsSetting ==
    (last.op = "idle")
        => \A r \in AllRecords :
              r.isValid => (r.isActive <=> SettingOf(settings, r.id) = "true")

\* the positions in the log of the calls of setup and createActions
ExtensionCalls == Positions("setup") \cup Positions("createActions")

\* C22: Activate performs its steps in order: the setting is written before
\* the entry module is loaded, the snapshot of the action names is taken
\* after the load and before any setup or createActions, and actions are
\* added to menus only after all matching extensions were processed; an
\* action is taken as new only if it was absent from the snapshot.
C22_ActivateOrder ==
    (last.op \in {"activate", "install"} /\ Positions("loadModule") # {})
        => /\ \A l \in Positions("loadModule") :
                \E s \in Positions("writeSetting") :
                    s < l /\ last.log[s].b = "true"
           /\ Cardinality(Positions("loadModule")) = 1
           /\ Cardinality(Positions("snapshot")) <= 1
           /\ \A p \in Positions("snapshot") :
                /\ \A l \in Positions("loadModule") : l < p
                /\ \A i \in ExtensionCalls \cup Positions("newAction") : p < i
           /\ ExtensionCalls # {} => Positions("snapshot") # {}
           /\ \A m \in Positions("addAction") :
                /\ \A i \in ExtensionCalls : i < m
                /\ \E n \in Positions("newAction") : last.log[n].a = last.log[m].a
           /\ \A n \in Positions("newAction") : last.log[n].a \notin last.preActions

C22_Witness ==
    /\ last.op = "activate"
    /\ last.exc = NoExc
    /\ last.preActions # {}
    /\ Positions("setup") # {}
    /\ Positions("newAction") # {}
    /\ Positions("addAction") # {}

\* the menu a location names: its segments matched in order, the first among
\* the actions of the menu bar, each next one among the actions of the submenu
\* of the one before; "None" when a segment is not found or has no submenu
RECURSIVE WalkMenus(_, _)
WalkMenus(idList, widget) ==
    IF widget = "None" THEN "None"
    ELSE IF idList = <<>> THEN widget
    ELSE LET acts == WidgetActions(World(VoidPlugin), widget)
             i == FirstNamed(acts, idList[1], 1)
         IN  IF i = 0 THEN "None" ELSE WalkMenus(Tail(idList), acts[i].menu)

\* the menu location of the action named name that the activation collected
LocationOf(name) ==
    last.log[CHOOSE n \in Positions("newAction") : last.log[n].a = name].b

\* C23: an action with the location s1/s2/.../sn is added to a menu only if
\* that menu is reached by matching s1 among the actions of the menu bar, s2
\* among the actions of s1's submenu, and so on; when a segment is not found
\* or a matched segment has no submenu the action is added to no menu.
C23_MenuWalk ==
    (last.op \in {"activate", "install"})
        => \A m \in Positions("addAction") :
              last.log[m].b = WalkMenus(SplitSlash(LocationOf(last.log[m].a)), MenuBar)

\* the positions in the log of the events of kind ev that are about action name
PositionsOf(ev, name) == {i \in Positions(ev) : last.log[i].a = name}

\* C25: during one Activate each action the plugin newly created is collected
\* once and added to its menu at most once, however many extension objects
\* are defined in the plugin's install directory.
C25_CollectedOnce ==
    (last.op \in {"activate", "install"})
        => \A i \in Positions("newAction") :
              /\ Cardinality(PositionsOf("newAction", last.log[i].a)) = 1
              /\ Cardinality(PositionsOf("addAction", last.log[i].a)) <= 1

\* the record the operation ran on came from a registry or from Install
FromRegistryOrInstall == last.ref.reg \/ last.chain.stage = "uninstalled"

\* C26: a proceeding Uninstall of a record obtained from Install or from a
\* registry deletes only the plugin's own directory <root>/<id>, its manifest
\* and its action file; it never deletes the install root nor a file or
\* directory of another plugin.
C26_UninstallOwnFilesOnly ==
    (last.op = "uninstall" /\ Proceeded /\ last.pre.isValid /\ FromRegistryOrInstall)
        => /\ \A i \in Positions("rmtree") :
                /\ last.pre.id # ""
                /\ last.log[i].a = PathJoin(PluginsDir, last.pre.id)
           /\ \A i \in Positions("remove") :
                last.log[i].a \in {last.pre.desktopFile,
                                   PathJoin(ActionsDir, last.pre.id \o ".action")}

\* C27: Plugins.path() returns the install root having made sure it exists:
\* refreshing a registry on a host whose install root is missing creates the
\* directory and gives an empty registry without raising.
C27_PathEnsuresRoot ==
    (last.op = "refresh")
        => /\ last.exc = NoExc
           /\ PluginsDir \in dirs

\* C24: once event handling is quiescent, each row's check state equals the
\* isActive flag of the plugin record of that row, and after a toggle only
\* the plugin whose row was toggled has had its activation state changed.
\* (stated for the sessions in which no handler has ended with an exception)
C24_RowsMirrorRecords ==
    (Quiescent /\ ui.event # "" /\ ui.exc = NoExc)
        => /\ \A r \in 1..Len(ui.rows) : ui.check[r] = plugins[ui.rows[r]].isActive
           /\ ui.event = "toggle"
                => \A k \in DOMAIN plugins \ {ui.rows[ui.row]} :
                      plugins[k].isActive = ui.preActive[k]

\* C28: handling one toggle of a check box or one click of the activate
\* button terminates: the itemChanged handler, re-entered through the
\* setCheckState of activatePlugin or deactivatePlugin, runs a bounded number
\* of times and then no change signal is pending.
C28_HandlingTerminates ==
    /\ [](ui.handled <= 2)
    /\ (~Quiescent) ~> Quiescent

C28_Witness ==
    /\ Quiescent
    /\ ui.event = "toggle"
    /\ ui.handled = 2
    /\ ui.exc = NoExc

====
